---------------------------- MODULE Spec2Model ----------------------------
(***************************************************************************)
(* A model of the book CRUD service of src/main.go: a net/http server      *)
(* with two registered patterns, five handlers, and one PostgreSQL table   *)
(* `books` reached through database/sql and lib/pq.                        *)
(*                                                                         *)
(* Conventions.                                                            *)
(*  - A Go string whose characters matter (the URL path) is a sequence of  *)
(*    one-character strings.                                               *)
(*  - A title or author is a Text [ch, n, sp]: n copies of the non-space   *)
(*    character ch followed by sp spaces.  Only its length and its         *)
(*    trailing spaces matter to the code and to the VARCHAR(255) columns.  *)
(*  - Book.Year is a Go int (64 bits) while the column is INT (32 bits).   *)
(*    A year is kept as two limbs [hi, lo], value hi * 2^16 + lo with      *)
(*    0 <= lo < 2^16, so that values outside 32 bits can be written.       *)
(*  - The database is assumed reachable and answering within the 3 s       *)
(*    deadline of each handler; a statement is one atomic step.            *)
(***************************************************************************)
EXTENDS Integers, Sequences, FiniteSets, TLC

(***************************************************************************)
(* Bounds of the model.                                                    *)
(***************************************************************************)
\* INSERTs the sequence may serve (caps books_id_seq).
MaxCreates == 2
\* Requests of one concurrent burst (one goroutine each).
NumWorkers == 3

(***************************************************************************)
(* Texts and years.                                                        *)
(***************************************************************************)
Text(c, k, s) == [ch |-> c, n |-> k, sp |-> s]

\* The Go zero value "".
EmptyText == Text("", 0, 0)

TextLen(t) == t.n + t.sp

Int64(h, l) == [hi |-> h, lo |-> l]

\* The Go zero value of an int.
ZeroInt == Int64(0, 0)

(***************************************************************************)
(* The schema: CREATE TABLE IF NOT EXISTS books (...).                     *)
(***************************************************************************)
\* title VARCHAR(255), author VARCHAR(255)
VarcharMax == 255

\* PostgreSQL's assignment of a value to a VARCHAR(n) column: a value of at
\* most n characters is stored as it is; a longer one is an error unless
\* every excess character is a space, and then it is cut to n characters.
VarcharFits(t) == t.n <= VarcharMax

VarcharStored(t) ==
    IF TextLen(t) <= VarcharMax THEN t ELSE Text(t.ch, t.n, VarcharMax - t.n)

\* year INT: a 32-bit signed integer; the driver sends the Go int in text
\* form and the server refuses a value outside -2^31 .. 2^31 - 1.
Int4Fits(y) == y.hi >= -32768 /\ y.hi <= 32767

(***************************************************************************)
(* fmt.Sscan(parts[2], &id) with id an int64: fmt's scanInt with verb 'v'  *)
(* followed by strconv.ParseInt(tok, 0, 64).  Sscan does not look at the   *)
(* input that follows the token.                                           *)
(***************************************************************************)
DecimalDigits == {"0", "1", "2", "3", "4", "5", "6", "7", "8", "9"}
OctalDigits == {"0", "1", "2", "3", "4", "5", "6", "7"}
BinaryDigits == {"0", "1"}
HexDigits == DecimalDigits \cup {"a", "b", "c", "d", "e", "f", "A", "B", "C", "D", "E", "F"}

DigitValue(c) ==
    CASE c = "0" -> 0 [] c = "1" -> 1 [] c = "2" -> 2 [] c = "3" -> 3
      [] c = "4" -> 4 [] c = "5" -> 5 [] c = "6" -> 6 [] c = "7" -> 7
      [] c = "8" -> 8 [] c = "9" -> 9
      [] c \in {"a", "A"} -> 10 [] c \in {"b", "B"} -> 11
      [] c \in {"c", "C"} -> 12 [] c \in {"d", "D"} -> 13
      [] c \in {"e", "E"} -> 14 [] c \in {"f", "F"} -> 15
      [] OTHER -> 99

IsSpace(c) == c \in {" ", "\t", "\n", "\r"}

RECURSIVE SkipSpace(_)
SkipSpace(s) ==
    IF s # <<>> /\ IsSpace(Head(s)) THEN SkipSpace(Tail(s)) ELSE s

\* The longest prefix of s made of characters of `digits`.
RECURSIVE AcceptRun(_, _)
AcceptRun(s, digits) ==
    IF s # <<>> /\ Head(s) \in digits
    THEN <<Head(s)>> \o AcceptRun(Tail(s), digits)
    ELSE <<>>

\* strconv.underscoreOK: underscores only between digits (a base prefix
\* counts as a digit).  saw is "^", "0", "_" or "!".
RECURSIVE UnderscoreScan(_, _, _)
UnderscoreScan(s, saw, hex) ==
    IF s = <<>> THEN saw # "_"
    ELSE LET c == Head(s) IN
         IF c \in DecimalDigits \/ (hex /\ c \in HexDigits)
         THEN UnderscoreScan(Tail(s), "0", hex)
         ELSE IF c = "_"
              THEN saw = "0" /\ UnderscoreScan(Tail(s), "_", hex)
              ELSE saw # "_" /\ UnderscoreScan(Tail(s), "!", hex)

underscoreOK(s0) ==
    LET s == IF s0 # <<>> /\ Head(s0) \in {"+", "-"} THEN Tail(s0) ELSE s0
        pre == Len(s) >= 2 /\ s[1] = "0" /\ s[2] \in {"b", "B", "o", "O", "x", "X"}
    IN  IF pre
        THEN UnderscoreScan(SubSeq(s, 3, Len(s)), "0", s[2] \in {"x", "X"})
        ELSE UnderscoreScan(s, "^", FALSE)

\* The digits of the largest magnitude an int64 holds, in each base.
MaxMagnitude(base, neg) ==
    CASE base = 10 ->
           <<9, 2, 2, 3, 3, 7, 2, 0, 3, 6, 8, 5, 4, 7, 7, 5, 8, 0, IF neg THEN 8 ELSE 7>>
      [] base = 16 ->
           IF neg THEN <<8>> \o [i \in 1..15 |-> 0] ELSE <<7>> \o [i \in 1..15 |-> 15]
      [] base = 8 ->
           IF neg THEN <<1>> \o [i \in 1..21 |-> 0] ELSE [i \in 1..21 |-> 7]
      [] base = 2 ->
           IF neg THEN <<1>> \o [i \in 1..63 |-> 0] ELSE [i \in 1..63 |-> 1]

RECURSIVE StripZeros(_)
StripZeros(ds) ==
    IF ds # <<>> /\ Head(ds) = 0 THEN StripZeros(Tail(ds)) ELSE ds

\* ds > ms as numbers written in the same base, neither with leading zeros.
RECURSIVE LexGreater(_, _)
LexGreater(ds, ms) ==
    IF ds = <<>> THEN FALSE
    ELSE IF Head(ds) # Head(ms) THEN Head(ds) > Head(ms)
         ELSE LexGreater(Tail(ds), Tail(ms))

ExceedsInt64(ds0, base, neg) ==
    LET ds == StripZeros(ds0)
        ms == MaxMagnitude(base, neg)
    IN  Len(ds) > Len(ms) \/ (Len(ds) = Len(ms) /\ LexGreater(ds, ms))

RECURSIVE Horner(_, _, _)
Horner(ds, base, acc) ==
    IF ds = <<>> THEN acc ELSE Horner(Tail(ds), base, acc * base + Head(ds))

ParseError == [ok |-> FALSE, id |-> 0]

\* strconv.ParseInt(tok, 0, 64).
ParseInt(tok) ==
    IF tok = <<>> THEN ParseError
    ELSE
    LET neg == Head(tok) = "-"
        s == IF Head(tok) \in {"+", "-"} THEN Tail(tok) ELSE tok
    IN  IF s = <<>> THEN ParseError
        ELSE
        LET pre == Head(s) = "0" /\ Len(s) >= 3
            base == IF Head(s) # "0" THEN 10
                    ELSE IF pre /\ s[2] \in {"b", "B"} THEN 2
                    ELSE IF pre /\ s[2] \in {"o", "O"} THEN 8
                    ELSE IF pre /\ s[2] \in {"x", "X"} THEN 16
                    ELSE 8
            body == IF Head(s) # "0" THEN s
                    ELSE IF pre /\ s[2] \in {"b", "B", "o", "O", "x", "X"}
                         THEN SubSeq(s, 3, Len(s))
                         ELSE Tail(s)
            chars == SelectSeq(body, LAMBDA c : c # "_")
            ds == [i \in 1..Len(chars) |-> DigitValue(chars[i])]
        IN  IF \E i \in 1..Len(ds) : ds[i] >= base THEN ParseError
            ELSE IF chars # body /\ ~underscoreOK(tok) THEN ParseError
            ELSE IF ExceedsInt64(ds, base, neg) THEN ParseError
            ELSE [ok |-> TRUE,
                  id |-> IF neg THEN -Horner(StripZeros(ds), base, 0)
                                ELSE Horner(StripZeros(ds), base, 0)]

\* fmt's (*ss).scanInt for verb 'v' and 64 bits, as Sscan calls it.
Sscan(str) ==
    LET s1 == SkipSpace(str) IN
    IF s1 = <<>> THEN ParseError
    ELSE
    LET sign == IF Head(s1) \in {"+", "-"} THEN <<Head(s1)>> ELSE <<>>
        s2 == IF sign # <<>> THEN Tail(s1) ELSE s1
        zero == s2 # <<>> /\ Head(s2) = "0"
        s3 == IF zero THEN Tail(s2) ELSE s2
        mark == IF zero /\ s3 # <<>> /\ Head(s3) \in {"b", "B", "o", "O", "x", "X"}
                THEN <<Head(s3)>> ELSE <<>>
        s4 == IF mark # <<>> THEN Tail(s3) ELSE s3
        digits == (IF ~zero THEN DecimalDigits
                   ELSE IF mark = <<>> THEN OctalDigits
                   ELSE IF mark[1] \in {"b", "B"} THEN BinaryDigits
                   ELSE IF mark[1] \in {"o", "O"} THEN OctalDigits
                   ELSE HexDigits) \cup {"_"}
        run == AcceptRun(s4, digits)
    IN  IF ~zero /\ run = <<>> THEN ParseError
        ELSE ParseInt(sign \o (IF zero THEN <<"0">> ELSE <<>>) \o mark \o run)


(***************************************************************************)
(* Requests, the Book struct and encoding/json.                            *)
(***************************************************************************)
Chars_books == <<"/", "b", "o", "o", "k", "s">>
Chars_booksSlash == Chars_books \o <<"/">>

JString(t) == [t |-> "string", v |-> t]
JNumber(x) == [t |-> "number", v |-> x]

\* A request body: malformed (or empty), or a JSON object given by its members.
BadBody == [valid |-> FALSE, obj |-> <<>>]
JObject(members) == [valid |-> TRUE, obj |-> members]

Book(id, title, author, year) ==
    [ID |-> id, Title |-> title, Author |-> author, Year |-> year]

\* json.NewDecoder(r.Body).Decode(&b) into a zero Book: a member that is
\* absent leaves the field at its zero value, a member of the wrong JSON
\* type is an error, and so is a body that is not JSON.
Decode(body) ==
    LET o == body.obj
        has(k) == k \in DOMAIN o
        typed(k, ty) == has(k) => o[k].t = ty
    IN  IF ~body.valid THEN [err |-> TRUE, b |-> Book(0, EmptyText, EmptyText, ZeroInt)]
        ELSE IF ~(typed("id", "number") /\ typed("title", "string")
                  /\ typed("author", "string") /\ typed("year", "number"))
        THEN [err |-> TRUE, b |-> Book(0, EmptyText, EmptyText, ZeroInt)]
        ELSE [err |-> FALSE,
              b |-> Book(IF has("id") THEN o["id"].v ELSE 0,
                         IF has("title") THEN o["title"].v ELSE EmptyText,
                         IF has("author") THEN o["author"].v ELSE EmptyText,
                         IF has("year") THEN o["year"].v ELSE ZeroInt)]

\* A Go slice of Book: nil, or backed by an array.
NilSlice == [isNil |-> TRUE, elems |-> <<>>]
append(s, b) == [isNil |-> FALSE, elems |-> Append(s.elems, b)]

\* json.NewEncoder(w).Encode(v): a struct is an object with the four tagged
\* members, a slice is an array, and a nil slice is the JSON value null.
EncodeBook(b) ==
    [json |-> "object", id |-> b.ID, title |-> b.Title, author |-> b.Author,
     year |-> b.Year]

EncodeBooks(s) ==
    IF s.isNil THEN [json |-> "null"]
    ELSE [json |-> "array",
          elems |-> [i \in 1..Len(s.elems) |-> EncodeBook(s.elems[i])]]

\* http.Error(w, msg, code)
Error(msg, code) == [status |-> code, ctype |-> "text/plain", body |-> [text |-> msg]]

\* w.Header().Set("Content-Type", "application/json"); Encode(v)
WriteJSON(v) == [status |-> 200, ctype |-> "application/json", body |-> v]

\* w.WriteHeader(http.StatusOK); fmt.Fprintf(w, msg, id)
WriteText(msg, id) ==
    [status |-> 200, ctype |-> "text/plain", body |-> [text |-> msg, id |-> id]]

\* What a handler has done when it reaches the database, or when it has
\* answered without reaching it.
Respond(name, response) == [ran |-> name, reply |-> TRUE, resp |-> response]
Query(name, statement) == [ran |-> name, reply |-> FALSE, stmt |-> statement]

(***************************************************************************)
(* The table and the five statements.  db is [books, seq]: the rows and    *)
(* the next value of the sequence behind `id SERIAL`.  Each operator gives *)
(* the set of results the statement can have.                              *)
(***************************************************************************)
Row(id, title, author, year) ==
    [id |-> id, title |-> title, author |-> author, year |-> year]

Ids(rows) == {row.id : row \in rows}

\* Fault variant of nextval: the sequence does not advance.
nextval_noAdvance(seq) == [value |-> seq, seq |-> seq]

\* nextval('books_id_seq')
nextval(seq) == [value |-> seq, seq |-> seq + 1]

\* Fault variant of Insert: the id is the lowest one no row holds, so the id
\* of a deleted row is handed out again.
Insert_reuseIds(db, title, author, year) ==
    LET free == CHOOSE i \in 1..(Cardinality(db.books) + 1) :
                    /\ i \notin Ids(db.books)
                    /\ \A j \in 1..(i - 1) : j \in Ids(db.books)
    IN  IF ~(Int4Fits(year) /\ VarcharFits(title) /\ VarcharFits(author))
        THEN {[err |-> TRUE, db |-> db]}
        ELSE {[err |-> FALSE, id |-> free,
               db |-> [books |-> db.books \cup
                           {Row(free, VarcharStored(title), VarcharStored(author), year)},
                       seq |-> db.seq + 1]]}

\* INSERT INTO books (title, author, year) VALUES ($1, $2, $3) RETURNING id
\* A year outside INT is refused when the parameters are bound.  A title or
\* author the column cannot hold fails the statement; whether the sequence
\* has advanced by then is left open.  A sequence value is never given back.
Insert(db, title, author, year) ==
    LET nv == nextval(db.seq) IN
    IF ~Int4Fits(year) THEN {[err |-> TRUE, db |-> db]}
    ELSE IF ~(VarcharFits(title) /\ VarcharFits(author))
    THEN {[err |-> TRUE, db |-> db], [err |-> TRUE, db |-> [db EXCEPT !.seq = nv.seq]]}
    ELSE IF nv.value \in Ids(db.books)
    THEN {[err |-> TRUE, db |-> [db EXCEPT !.seq = nv.seq]]}
    ELSE {[err |-> FALSE, id |-> nv.value,
           db |-> [books |-> db.books \cup
                       {Row(nv.value, VarcharStored(title), VarcharStored(author), year)},
                   seq |-> nv.seq]]}

RECURSIVE Orders(_)
Orders(rows) ==
    IF rows = {} THEN {<<>>}
    ELSE UNION {{<<row>> \o rest : rest \in Orders(rows \ {row})} : row \in rows}

\* SELECT id, title, author, year FROM books: the rows in an order the
\* statement does not fix.
SelectAll(db) == {[err |-> FALSE, db |-> db, rows |-> o] : o \in Orders(db.books)}

\* SELECT id, title, author, year FROM books WHERE id = $1
SelectOne(db, id) ==
    {[err |-> FALSE, db |-> db, rows |-> {row \in db.books : row.id = id}]}

\* Fault variant of Update: a row is inserted when none matches.
Update_upsert(db, title, author, year, id) ==
    LET hit == {row \in db.books : row.id = id}
        new == Row(id, VarcharStored(title), VarcharStored(author), year)
    IN  IF ~(Int4Fits(year) /\ VarcharFits(title) /\ VarcharFits(author))
        THEN {[err |-> TRUE, db |-> db]}
        ELSE {[err |-> FALSE, affected |-> Cardinality(hit),
               db |-> [db EXCEPT !.books = (db.books \ hit) \cup {new}]]}

\* Fault variant of Update: the year column is left out of the SET list.
Update_keepsYear(db, title, author, year, id) ==
    LET hit == {row \in db.books : row.id = id}
        new == {Row(row.id, VarcharStored(title), VarcharStored(author), row.year) : row \in hit}
    IN  IF ~(Int4Fits(year) /\ VarcharFits(title) /\ VarcharFits(author))
        THEN {[err |-> TRUE, db |-> db]}
        ELSE {[err |-> FALSE, affected |-> Cardinality(hit),
               db |-> [db EXCEPT !.books = (db.books \ hit) \cup new]]}

\* UPDATE books SET title=$1, author=$2, year=$3 WHERE id=$4
\* The statement is planned with its parameters, so a title or author the
\* column cannot hold is refused even when no row matches.
Update(db, title, author, year, id) ==
    LET hit == {row \in db.books : row.id = id}
        new == {Row(row.id, VarcharStored(title), VarcharStored(author), year) : row \in hit}
        done == [err |-> FALSE, affected |-> Cardinality(hit),
                 db |-> [db EXCEPT !.books = (db.books \ hit) \cup new]]
    IN  IF ~Int4Fits(year) THEN {[err |-> TRUE, db |-> db]}
        ELSE IF ~(VarcharFits(title) /\ VarcharFits(author))
        THEN {[err |-> TRUE, db |-> db]}
        ELSE {done}

\* DELETE FROM books WHERE id=$1
Delete(db, id) ==
    LET hit == {row \in db.books : row.id = id} IN
    {[err |-> FALSE, affected |-> Cardinality(hit),
      db |-> [db EXCEPT !.books = db.books \ hit]]}

Exec(stmt, db) ==
    CASE stmt.op = "INSERT" -> Insert(db, stmt.title, stmt.author, stmt.year)
      [] stmt.op = "SELECT_ALL" -> SelectAll(db)
      [] stmt.op = "SELECT" -> SelectOne(db, stmt.id)
      [] stmt.op = "UPDATE" -> Update(db, stmt.title, stmt.author, stmt.year, stmt.id)
      [] stmt.op = "DELETE" -> Delete(db, stmt.id)

(***************************************************************************)
(* The handlers.  Each is given up to its database call (a Query, or a     *)
(* Respond when it answers before it), and from the call's result on.      *)
(***************************************************************************)
\* splitPath: "", "books", and whatever follows "/books/".
splitPath(path) ==
    <<<<>>, <<"b", "o", "o", "k", "s">>,
      SubSeq(path, Len(Chars_booksSlash) + 1, Len(path))>>

parseIDFromURL(r) ==
    LET parts == splitPath(r.path) IN
    IF Len(parts) < 3 THEN ParseError ELSE Sscan(parts[3])

\* Fault variant of createBook: only the title is required.
createBook_titleOnly(r) ==
    LET d == Decode(r.body) IN
    IF d.err THEN Respond("createBook", Error("invalid JSON", 400))
    ELSE IF d.b.Title = EmptyText
    THEN Respond("createBook", Error("missing Title or Author", 400))
    ELSE Query("createBook",
               [op |-> "INSERT", b |-> d.b, title |-> d.b.Title,
                author |-> d.b.Author, year |-> d.b.Year])

createBook(r) ==
    LET d == Decode(r.body) IN
    IF d.err THEN Respond("createBook", Error("invalid JSON", 400))
    ELSE IF d.b.Title = EmptyText \/ d.b.Author = EmptyText
    THEN Respond("createBook", Error("missing Title or Author", 400))
    ELSE Query("createBook",
               [op |-> "INSERT", b |-> d.b, title |-> d.b.Title,
                author |-> d.b.Author, year |-> d.b.Year])

createBookReply(stmt, res) ==
    IF res.err THEN Error("insert failed", 500)
    ELSE WriteJSON(EncodeBook([stmt.b EXCEPT !.ID = res.id]))

getAllBooks(r) == Query("getAllBooks", [op |-> "SELECT_ALL"])

RECURSIVE ScanRows(_, _)
ScanRows(rows, acc) ==
    IF rows = <<>> THEN acc
    ELSE LET row == Head(rows) IN
         ScanRows(Tail(rows), append(acc, Book(row.id, row.title, row.author, row.year)))

getAllBooksReply(stmt, res) ==
    IF res.err THEN Error("select failed", 500)
    ELSE WriteJSON(EncodeBooks(ScanRows(res.rows, NilSlice)))

getBookByID(r) ==
    LET p == parseIDFromURL(r) IN
    IF ~p.ok THEN Respond("getBookByID", Error("invalid ID", 400))
    ELSE Query("getBookByID", [op |-> "SELECT", id |-> p.id])

getBookByIDReply(stmt, res) ==
    IF ~res.err /\ res.rows = {} THEN Error("book not found", 404)
    ELSE IF res.err THEN Error("select failed", 500)
    ELSE LET row == CHOOSE x \in res.rows : TRUE IN
         WriteJSON(EncodeBook(Book(row.id, row.title, row.author, row.year)))

\* Fault variant of updateBookByID: an id in the body takes the place of the
\* one in the path.
updateBookByID_bodyId(r) ==
    LET p == parseIDFromURL(r)
        d == Decode(r.body)
    IN  IF ~p.ok THEN Respond("updateBookByID", Error("invalid ID", 400))
        ELSE IF d.err THEN Respond("updateBookByID", Error("invalid JSON", 400))
        ELSE Query("updateBookByID",
                   [op |-> "UPDATE", b |-> d.b, title |-> d.b.Title,
                    author |-> d.b.Author, year |-> d.b.Year,
                    id |-> IF d.b.ID # 0 THEN d.b.ID ELSE p.id])

updateBookByID(r) ==
    LET p == parseIDFromURL(r)
        d == Decode(r.body)
    IN  IF ~p.ok THEN Respond("updateBookByID", Error("invalid ID", 400))
        ELSE IF d.err THEN Respond("updateBookByID", Error("invalid JSON", 400))
        ELSE Query("updateBookByID",
                   [op |-> "UPDATE", b |-> d.b, title |-> d.b.Title,
                    author |-> d.b.Author, year |-> d.b.Year, id |-> p.id])

updateBookByIDReply(stmt, res) ==
    IF res.err THEN Error("update failed", 500)
    ELSE IF res.affected = 0 THEN Error("no book with this ID", 404)
    ELSE WriteText("updated", stmt.id)

deleteBookByID(r) ==
    LET p == parseIDFromURL(r) IN
    IF ~p.ok THEN Respond("deleteBookByID", Error("invalid ID", 400))
    ELSE Query("deleteBookByID", [op |-> "DELETE", id |-> p.id])

\* Fault variant of deleteBookByIDReply: the number of rows deleted is not
\* looked at.
deleteBookByIDReply_always200(stmt, res) ==
    IF res.err THEN Error("delete failed", 500)
    ELSE WriteText("deleted", stmt.id)

deleteBookByIDReply(stmt, res) ==
    IF res.err THEN Error("delete failed", 500)
    ELSE IF res.affected = 0 THEN Error("no book with this ID", 404)
    ELSE WriteText("deleted", stmt.id)

handleBooks(r) ==
    CASE r.method = "POST" -> createBook(r)
      [] r.method = "GET" -> getAllBooks(r)
      [] OTHER -> Respond("none", Error("method not supported", 405))

\* Fault variant of handleBookByID: the id is parsed before the method is
\* looked at.
handleBookByID_parseFirst(r) ==
    IF ~parseIDFromURL(r).ok THEN Respond("none", Error("invalid ID", 400))
    ELSE CASE r.method = "GET" -> getBookByID(r)
           [] r.method = "PUT" -> updateBookByID(r)
           [] r.method = "DELETE" -> deleteBookByID(r)
           [] OTHER -> Respond("none", Error("method not supported", 405))

handleBookByID(r) ==
    CASE r.method = "GET" -> getBookByID(r)
      [] r.method = "PUT" -> updateBookByID(r)
      [] r.method = "DELETE" -> deleteBookByID(r)
      [] OTHER -> Respond("none", Error("method not supported", 405))

HasPrefix(s, pre) == Len(s) >= Len(pre) /\ SubSeq(s, 1, Len(pre)) = pre

\* The segments of a path: what stands between its slashes.
RECURSIVE Segments(_, _)
Segments(s, cur) ==
    IF s = <<>> THEN <<cur>>
    ELSE IF Head(s) = "/" THEN <<cur>> \o Segments(Tail(s), <<>>)
    ELSE Segments(Tail(s), Append(cur, Head(s)))

\* path.Clean on the segments of a rooted path: empty and "." segments go,
\* ".." takes the segment before it along.
RECURSIVE CleanSegments(_, _)
CleanSegments(segs, kept) ==
    IF segs = <<>> THEN kept
    ELSE LET g == Head(segs) IN
         IF g = <<>> \/ g = <<".">> THEN CleanSegments(Tail(segs), kept)
         ELSE IF g = <<".", ".">>
         THEN CleanSegments(Tail(segs),
                            IF kept = <<>> THEN kept ELSE SubSeq(kept, 1, Len(kept) - 1))
         ELSE CleanSegments(Tail(segs), Append(kept, g))

RECURSIVE JoinSegments(_)
JoinSegments(segs) ==
    IF segs = <<>> THEN <<>> ELSE <<"/">> \o Head(segs) \o JoinSegments(Tail(segs))

\* net/http's cleanPath: the canonical form of a request path, a trailing
\* slash kept.
cleanPath(path) ==
    IF path = <<>> THEN <<"/">>
    ELSE LET rooted == IF Head(path) = "/" THEN path ELSE <<"/">> \o path
             segs == CleanSegments(Segments(rooted, <<>>), <<>>)
             np == IF segs = <<>> THEN <<"/">> ELSE JoinSegments(segs)
         IN  IF rooted[Len(rooted)] = "/" /\ np # <<"/">> THEN np \o <<"/">> ELSE np

\* http.Redirect(w, r, url, http.StatusMovedPermanently)
Redirect(url) ==
    [status |-> 301, ctype |-> "text/html", body |-> [text |-> "Moved Permanently", location |-> url]]

\* http.HandleFunc("/books", handleBooks); http.HandleFunc("/books/",
\* handleBookByID) on the default mux: a path that is not in canonical form
\* is redirected to it; the first pattern matches that path alone, the second
\* every path under it; any other path gets the mux's 404.
ServeMux(r) ==
    IF cleanPath(r.path) # r.path THEN Respond("Redirect", Redirect(cleanPath(r.path)))
    ELSE IF r.path = Chars_books THEN handleBooks(r)
    ELSE IF HasPrefix(r.path, Chars_booksSlash) THEN handleBookByID(r)
    ELSE Respond("NotFound", Error("404 page not found", 404))

\* The rest of a handler, from the result of its statement.
Reply(plan, res) ==
    CASE plan.ran = "createBook" -> createBookReply(plan.stmt, res)
      [] plan.ran = "getAllBooks" -> getAllBooksReply(plan.stmt, res)
      [] plan.ran = "getBookByID" -> getBookByIDReply(plan.stmt, res)
      [] plan.ran = "updateBookByID" -> updateBookByIDReply(plan.stmt, res)
      [] plan.ran = "deleteBookByID" -> deleteBookByIDReply(plan.stmt, res)

(***************************************************************************)
(* The state.                                                              *)
(***************************************************************************)
VARIABLES
    books,          \* the rows of table books
    books_id_seq,   \* the next value of the sequence behind id SERIAL
    req,            \* the request served last, one at a time
    resp,           \* its response
    ran,            \* the handler that served it
    stmts,          \* the number of SQL statements it issued
    before,         \* the rows before it
    created,        \* the ids returned by successful creates, in order
    deleted,        \* the ids whose DELETE answered 200
    sent,           \* id -> the values of the last successful write to it, as sent
    workers,        \* the goroutines of a burst of concurrent requests
    snap,           \* the rows when the burst began
    overlap         \* the pairs of handlers that were at the database together

vars == <<books, books_id_seq, req, resp, ran, stmts, before, created, deleted,
          sent, workers, snap, overlap>>

(***************************************************************************)
(* The requests the model draws from.                                      *)
(***************************************************************************)
Methods == {"GET", "POST", "PUT", "DELETE", "PATCH"}

TextA == Text("a", 1, 0)
TextB == Text("b", 1, 0)
\* 255 characters: the longest the columns hold.
TextFull == Text("a", VarcharMax, 0)
\* 256 characters, none a trailing space.
TextLong == Text("a", VarcharMax + 1, 0)
\* 256 characters, the last 255 of them spaces.
TextPadded == Text("a", 1, VarcharMax)

Year2023 == Int64(0, 2023)
\* 2^31, the first year the INT column cannot hold.
YearWide == Int64(32768, 0)

Members(title, author, year) ==
    ("title" :> JString(title)) @@ ("author" :> JString(author))
        @@ ("year" :> JNumber(year))

BodyGood == JObject(Members(TextA, TextB, Year2023))
\* carries an id of its own and leaves the year out
BodyOwnId == JObject(("id" :> JNumber(1)) @@ ("title" :> JString(TextB))
                        @@ ("author" :> JString(TextFull)))
BodyNoTitle == JObject(("author" :> JString(TextB)) @@ ("year" :> JNumber(Year2023)))
BodyEmptyAuthor == JObject(Members(TextA, EmptyText, ZeroInt))
BodyLong == JObject(Members(TextLong, TextB, Year2023))
BodyPadded == JObject(Members(TextPadded, TextB, Year2023))
BodyWideYear == JObject(Members(TextA, TextB, YearWide))
BodyTitleNumber == JObject(("title" :> JNumber(Year2023)) @@ ("author" :> JString(TextB)))

Bodies ==
    {BodyGood, BodyOwnId, BodyNoTitle, BodyEmptyAuthor, BodyLong, BodyPadded,
     BodyWideYear, BodyTitleNumber, BadBody}

\* What follows "/books/" in the paths drawn.
Suffixes ==
    {<<>>, <<"1">>, <<"2">>, <<"7">>, <<"a", "b", "c">>,
     <<"1", "a", "b", "c">>, <<"1", "/">>, <<"1", "/", "x">>,
     <<"-", "1">>, <<"0", "x", "2">>,
     <<"9", "2", "2", "3", "3", "7", "2", "0", "3", "6", "8", "5", "4", "7", "7",
       "5", "8", "0", "8">>}

\* Those of them that name an id outright.
IdSuffixes == {<<"1">>, <<"2">>, <<"7">>}

\* Suffixes that make a path with an empty segment.
UncleanSuffixes == {<<"/", "1">>, <<"1", "/", "/">>}

Request(m, p, b) == [method |-> m, path |-> p, body |-> b]

\* Only POST and PUT carry a body here; the other methods never read one.
Requests ==
    {Request("POST", Chars_books, b) : b \in Bodies}
    \cup {Request(m, Chars_books, BadBody) : m \in Methods \ {"POST"}}
    \cup {Request("PUT", Chars_booksSlash \o s, b) : s \in IdSuffixes, b \in Bodies}
    \cup {Request("PUT", Chars_booksSlash \o s, BodyGood) : s \in Suffixes}
    \cup {Request(m, Chars_booksSlash \o s, BadBody) : m \in Methods \ {"PUT"}, s \in Suffixes}
    \cup {Request("POST", Chars_booksSlash \o <<"1">>, BodyGood)}
    \cup {Request("GET", <<"/">>, BadBody)}
    \cup {Request(m, Chars_booksSlash \o s, IF m = "PUT" THEN BodyGood ELSE BadBody) :
              m \in Methods \ {"POST"}, s \in UncleanSuffixes}

\* The handler each request reaches and how far it gets before the database.
PlanOf == [r \in Requests |-> ServeMux(r)]

NoRequest == Request("", <<>>, BadBody)
NoResponse == [status |-> 0, ctype |-> "", body |-> [text |-> ""]]
IdleWorker == [pc |-> "idle"]

Init ==
    /\ books = {}
    /\ books_id_seq = 1
    /\ req = NoRequest
    /\ resp = NoResponse
    /\ ran = ""
    /\ stmts = 0
    /\ before = {}
    /\ created = <<>>
    /\ deleted = {}
    /\ sent = <<>>
    /\ workers = [w \in 1..NumWorkers |-> IdleWorker]
    /\ snap = {}
    /\ overlap = {}

DB == [books |-> books, seq |-> books_id_seq]

\* The sequence is capped: no INSERT is issued past MaxCreates values.
Admit(plan) ==
    IF plan.reply THEN TRUE
    ELSE IF plan.stmt.op = "INSERT" THEN books_id_seq <= MaxCreates
    ELSE TRUE

Restrict(f, S) == [x \in S |-> f[x]]

Written(b, how) == [Title |-> b.Title, Author |-> b.Author, Year |-> b.Year, by |-> how]

\* What a client has seen once a request is answered.
Observe(plan, response) ==
    LET ok == response.status = 200 IN
    /\ created' = IF ok /\ plan.ran = "createBook"
                  THEN Append(created, response.body.id) ELSE created
    /\ deleted' = IF ok /\ plan.ran = "deleteBookByID"
                  THEN deleted \cup {plan.stmt.id} ELSE deleted
    /\ sent' = IF ok /\ plan.ran = "createBook"
               THEN (response.body.id :> Written(plan.stmt.b, "create")) @@ sent
               ELSE IF ok /\ plan.ran = "updateBookByID"
               THEN (plan.stmt.id :> Written(plan.stmt.b, "update")) @@ sent
               ELSE IF ok /\ plan.ran = "deleteBookByID"
               THEN Restrict(sent, DOMAIN sent \ {plan.stmt.id})
               ELSE sent

\* One request served from its arrival to its response, with no other
\* request in flight.
Serve(r) ==
    \E plan \in {PlanOf[r]} :
    /\ \A w \in 1..NumWorkers : workers[w].pc = "idle"
    /\ Admit(plan)
    /\ req' = r
    /\ ran' = plan.ran
    /\ before' = books
    /\ IF plan.reply
       THEN /\ resp' = plan.resp
            /\ stmts' = 0
            /\ UNCHANGED <<books, books_id_seq>>
            /\ Observe(plan, plan.resp)
       ELSE \E res \in Exec(plan.stmt, DB) :
                /\ resp' = Reply(plan, res)
                /\ stmts' = 1
                /\ books' = res.db.books
                /\ books_id_seq' = res.db.seq
                /\ Observe(plan, Reply(plan, res))
    /\ UNCHANGED <<workers, snap, overlap>>

Next == \E r \in Requests : Serve(r)

Spec == Init /\ [][Next]_vars

(***************************************************************************)
(* Concurrent requests.  net/http serves each request on a goroutine of    *)
(* its own; the handlers share only the database, which runs each          *)
(* statement atomically.  A burst is NumWorkers goroutines, each serving   *)
(* one request: Begin runs a handler up to its database call, Finish runs  *)
(* the statement and the rest of the handler.  Before the burst the table  *)
(* is filled by creates served one at a time.                              *)
(***************************************************************************)
SetupRequests == {Request("POST", Chars_books, BodyGood)}

BurstRequests ==
    {Request("POST", Chars_books, BodyGood),
     Request("PUT", Chars_booksSlash \o <<"1">>, BodyOwnId),
     Request("DELETE", Chars_booksSlash \o <<"1">>, BadBody),
     Request("DELETE", Chars_booksSlash \o <<"2">>, BadBody)}

\* The goroutines that have reached their database call and not returned.
Pending == {v \in 1..NumWorkers : workers[v].pc = "pending"}

Setup == \E r \in SetupRequests : Serve(r)

Begin(w, r) ==
    \E plan \in {PlanOf[r]} :
    /\ workers[w].pc = "idle"
    /\ Admit(plan)
    /\ snap' = IF \A v \in 1..NumWorkers : workers[v].pc = "idle" THEN books ELSE snap
    /\ workers' = [workers EXCEPT ![w] =
                      IF plan.reply
                      THEN [pc |-> "done", req |-> r, plan |-> plan, resp |-> plan.resp]
                      ELSE [pc |-> "pending", req |-> r, plan |-> plan]]
    /\ overlap' = overlap \cup
                      {<<workers[v].plan.ran, plan.ran>> : v \in IF plan.reply THEN {} ELSE Pending}
    /\ IF plan.reply THEN Observe(plan, plan.resp)
                     ELSE UNCHANGED <<created, deleted, sent>>
    /\ UNCHANGED <<books, books_id_seq, req, resp, ran, stmts, before>>

Finish(w) ==
    LET plan == workers[w].plan IN
    /\ workers[w].pc = "pending"
    /\ \E res \in Exec(plan.stmt, DB) :
           /\ books' = res.db.books
           /\ books_id_seq' = res.db.seq
           /\ workers' = [workers EXCEPT ![w] =
                             [pc |-> "done", req |-> workers[w].req, plan |-> plan,
                              resp |-> Reply(plan, res)]]
           /\ Observe(plan, Reply(plan, res))
    /\ UNCHANGED <<req, resp, ran, stmts, before, snap, overlap>>

NextConc ==
    \/ Setup
    \/ \E w \in 1..NumWorkers : \E r \in BurstRequests : Begin(w, r)
    \/ \E w \in 1..NumWorkers : Finish(w)

SpecConc == Init /\ [][NextConc]_vars

(***************************************************************************)
(* Properties.  Those about one request read the last request served       *)
(* (req, resp, ran, stmts) and the rows before it (before).                *)
(***************************************************************************)
OnBooks == req.path = Chars_books
OnBookByID == HasPrefix(req.path, Chars_booksSlash)
\* The path of the last request is in canonical form.
Canonical == cleanPath(req.path) = req.path
Decoded == Decode(req.body)
Parsed == parseIDFromURL(req)
\* What follows "/books/" in the path of the last request.
Suffix == splitPath(req.path)[3]

\* The columns accept the values of b.
Storable(b) == VarcharFits(b.Title) /\ VarcharFits(b.Author) /\ Int4Fits(b.Year)

StoredRow(id, b) == Row(id, VarcharStored(b.Title), VarcharStored(b.Author), b.Year)

UniqueIds == \A x, y \in books : x.id = y.id => x = y

\* The id returned last differs from every id returned before it.
LastIsFresh ==
    \A i \in 1..(Len(created) - 1) : created[i] # created[Len(created)]

\* A create whose body decodes with a non-empty title and author.
ValidCreate ==
    /\ req.method = "POST" /\ OnBooks
    /\ ~Decoded.err
    /\ Decoded.b.Title # EmptyText /\ Decoded.b.Author # EmptyText

\* C1 as stated: every create with a non-empty title and author answers 200
\* with an id > 0 that no earlier create returned, and no two rows share an id.
C1_Original ==
    /\ UniqueIds
    /\ ValidCreate =>
          /\ resp.status = 200
          /\ resp.body.id > 0
          /\ created # <<>> /\ created[Len(created)] = resp.body.id
          /\ LastIsFresh

\* C1 (amended): a create with a non-empty title and author whose values the
\* columns accept answers 200 with an id > 0 that no earlier create returned,
\* whatever id its body carries, and adds exactly the row of that id; one
\* whose values the columns refuse answers 500 and adds no row.  No two rows
\* share an id and no id is returned twice.
C1_CreateReturnsFreshId ==
    /\ UniqueIds
    /\ \A i, j \in 1..Len(created) : created[i] = created[j] => i = j
    /\ ValidCreate =>
          IF Storable(Decoded.b)
          THEN /\ resp.status = 200
               /\ stmts = 1
               /\ resp.body.id > 0
               /\ created # <<>> /\ created[Len(created)] = resp.body.id
               /\ LastIsFresh
               /\ resp.body.id \notin Ids(before)
               /\ books = before \cup {StoredRow(resp.body.id, Decoded.b)}
          ELSE /\ resp.status = 500
               /\ books = before

\* A create that follows a delete and carries an id of its own in its body.
C1_Witness ==
    /\ ValidCreate /\ resp.status = 200
    /\ req.body = BodyOwnId
    /\ deleted # {}
    /\ Len(created) = 2
    /\ resp.body.id # Decoded.b.ID

\* C2: a create whose decoded title or author is empty answers 400, issues no
\* SQL statement and leaves the table as it was.
C2_EmptyFieldsRejected ==
    (/\ req.method = "POST" /\ OnBooks
     /\ (Decoded.b.Title = EmptyText \/ Decoded.b.Author = EmptyText))
    => /\ resp.status = 400
       /\ stmts = 0
       /\ books = before

\* An explicitly empty author, refused while the table holds a row.
C2_Witness ==
    /\ req.method = "POST" /\ OnBooks
    /\ req.body = BodyEmptyAuthor
    /\ resp.status = 400
    /\ books # {}

\* C3 as stated: GET /books answers 200 with a JSON array holding one element
\* per row of the table, the empty array [] when the table has no rows.
C3_ListIsArray ==
    (req.method = "GET" /\ OnBooks) =>
        /\ resp.status = 200
        /\ resp.body.json = "array"
        /\ Len(resp.body.elems) = Cardinality(books)
        /\ {resp.body.elems[i] : i \in 1..Len(resp.body.elems)}
             = {EncodeBook(Book(row.id, row.title, row.author, row.year)) : row \in books}

\* C4 as stated: GET, PUT and DELETE on /books/<s> answer 400, issue no SQL
\* statement and leave the table as it was whenever <s> as a whole is not an
\* integer (here: whenever strconv.ParseInt refuses <s>; paths in canonical
\* form only).
C4_MalformedIdRejected ==
    (/\ OnBookByID /\ Canonical
     /\ req.method \in {"GET", "PUT", "DELETE"}
     /\ ~ParseInt(Suffix).ok)
    => /\ resp.status = 400
       /\ stmts = 0
       /\ books = before

\* A PUT whose id parses and matches no row, with a body that decodes.
UpdateOfMissing ==
    /\ req.method = "PUT" /\ OnBookByID /\ Canonical
    /\ Parsed.ok /\ Parsed.id \notin Ids(before)
    /\ ~Decoded.err

\* C5 as stated: a PUT with a parseable id that matches no row and a valid
\* JSON body answers 404 and leaves the table as it was.
C5_Original ==
    UpdateOfMissing => (resp.status = 404 /\ books = before)

\* C5 (amended): a PUT with a parseable id that matches no row and a valid
\* JSON body leaves the table as it was and creates no row; it answers 404
\* when the columns accept the body's values and 500 when they refuse them.
C5_UpdateOfMissingId ==
    UpdateOfMissing =>
        /\ books = before
        /\ stmts = 1
        /\ resp.status = IF Storable(Decoded.b) THEN 404 ELSE 500

\* An update of an id that matches none of the rows the table holds.
C5_Witness ==
    /\ UpdateOfMissing
    /\ before # {}
    /\ resp.status = 404

\* r is a GET, PUT or DELETE whose path, in canonical form, names id.
Targets(r, id) ==
    /\ HasPrefix(r.path, Chars_booksSlash)
    /\ cleanPath(r.path) = r.path
    /\ r.method \in {"GET", "PUT", "DELETE"}
    /\ parseIDFromURL(r).ok /\ parseIDFromURL(r).id = id

\* C6 as stated: once DELETE /books/<id> has answered 200, every later GET,
\* PUT or DELETE on that id answers 404.
C6_Original ==
    [][\A id \in deleted : Targets(req', id) => resp'.status = 404]_vars

\* C6 (amended): once DELETE /books/<id> has answered 200 no row has that id
\* again, whatever is created, updated or deleted afterwards, and no later
\* GET, PUT or DELETE on it answers 200: GET and DELETE answer 404, and PUT
\* answers 400 when its body is not JSON of the right types, 500 when the
\* columns refuse the body's values, and 404 otherwise.
C6_DeletedStaysDeleted ==
    [][\A id \in deleted :
          /\ id \notin Ids(books')
          /\ Targets(req', id) =>
                resp'.status =
                    IF req'.method # "PUT" THEN 404
                    ELSE IF Decode(req'.body).err THEN 400
                    ELSE IF Storable(Decode(req'.body).b) THEN 404
                    ELSE 500]_vars

\* A GET of a deleted id, after a later create, while another row exists.
C6_Witness ==
    /\ req.method = "GET" /\ OnBookByID
    /\ Parsed.ok /\ Parsed.id \in deleted
    /\ resp.status = 404
    /\ Len(created) = 2
    /\ books # {}

\* A GET whose id is one that a create or update has written and no delete
\* has removed since.
GetOfWritten ==
    /\ req.method = "GET" /\ OnBookByID /\ Canonical
    /\ Parsed.ok /\ Parsed.id \in DOMAIN sent

\* C7 as stated: a get-by-id answers 200 with the title, author and year
\* sent by the latest successful create or update of that id.
C7_Original ==
    GetOfWritten =>
        /\ resp.status = 200
        /\ resp.body.id = Parsed.id
        /\ resp.body.title = sent[Parsed.id].Title
        /\ resp.body.author = sent[Parsed.id].Author
        /\ resp.body.year = sent[Parsed.id].Year

\* C7 (amended): a get-by-id answers 200 with the year sent by the latest
\* successful create or update of that id and with its title and author as
\* the VARCHAR(255) columns keep them: the same when they have at most 255
\* characters, cut to 255 characters when the rest was only spaces.
C7_GetReturnsLatestWrite ==
    GetOfWritten =>
        /\ resp.status = 200
        /\ resp.body.id = Parsed.id
        /\ resp.body.title = VarcharStored(sent[Parsed.id].Title)
        /\ resp.body.author = VarcharStored(sent[Parsed.id].Author)
        /\ resp.body.year = sent[Parsed.id].Year
        /\ TextLen(sent[Parsed.id].Title) <= VarcharMax
              => resp.body.title = sent[Parsed.id].Title
        /\ TextLen(sent[Parsed.id].Author) <= VarcharMax
              => resp.body.author = sent[Parsed.id].Author

\* A get of a row whose latest write was an update.
C7_Witness ==
    /\ GetOfWritten
    /\ resp.status = 200
    /\ sent[Parsed.id].by = "update"
    /\ resp.body.title = TextB
    /\ resp.body.year = ZeroInt

\* The handler each method is dispatched to, or 405.
Dispatched ==
    /\ OnBooks =>
          CASE req.method = "POST" -> ran = "createBook"
            [] req.method = "GET" -> ran = "getAllBooks"
            [] OTHER -> ran = "none" /\ resp.status = 405
    /\ OnBookByID =>
          CASE req.method = "GET" -> ran = "getBookByID"
            [] req.method = "PUT" -> ran = "updateBookByID"
            [] req.method = "DELETE" -> ran = "deleteBookByID"
            [] OTHER -> ran = "none" /\ resp.status = 405

\* A 405 comes from the dispatch alone, before any statement.
Only405 ==
    /\ resp.status = 405 => (ran = "none" /\ stmts = 0 /\ books = before)
    /\ ran = "none" => resp.status = 405

UpdateDone == ran = "updateBookByID" /\ resp.status = 200

\* C9 as stated: a successful update overwrites the title, author and year
\* of the one row whose id is in the path with the body's values and changes
\* nothing else.
C9_Original ==
    UpdateDone =>
        /\ Cardinality({row \in before : row.id = Parsed.id}) = 1
        /\ books = {row \in before : row.id # Parsed.id}
                     \cup {Row(Parsed.id, Decoded.b.Title, Decoded.b.Author, Decoded.b.Year)}

\* C9 (amended): a successful update changes only the row whose id is in the
\* path: its id stays, an id in the body is ignored, its year becomes the
\* body's and its title and author become the body's as the VARCHAR(255)
\* columns keep them (empty when omitted, cut to 255 characters when longer
\* by spaces only); every other row is left as it was.
C9_UpdateOverwritesOnlyThatRow ==
    UpdateDone =>
        /\ Cardinality({row \in before : row.id = Parsed.id}) = 1
        /\ books = {row \in before : row.id # Parsed.id}
                     \cup {StoredRow(Parsed.id, Decoded.b)}
        /\ Ids(books) = Ids(before)
        /\ \A k \in {"title", "author"} :
              (k \notin DOMAIN req.body.obj) =>
                  \E row \in books : row.id = Parsed.id /\ row[k] = EmptyText

\* An update whose body names another row's id and leaves the year out,
\* while the table holds that other row.
C9_Witness ==
    /\ UpdateDone
    /\ req.body = BodyOwnId
    /\ Parsed.id # Decoded.b.ID
    /\ Decoded.b.ID \in Ids(books)
    /\ \E row \in books : row.id = Parsed.id /\ row.year = ZeroInt

(***************************************************************************)
(* Properties of a burst of concurrent requests (SpecConc).                *)
(***************************************************************************)
Started == {w \in 1..NumWorkers : workers[w].pc # "idle"}
Done == {w \in 1..NumWorkers : workers[w].pc = "done"}
Ran(name) == {w \in Started : workers[w].plan.ran = name /\ ~workers[w].plan.reply}
On(name, id) == {w \in Ran(name) : workers[w].plan.stmt.id = id}
Answered(ws, code) == {w \in ws \cap Done : workers[w].resp.status = code}

\* C10: with the statements of concurrent requests interleaved in any order,
\* concurrent DELETEs of one existing id get exactly one 200 and 404 for the
\* rest; concurrent creates get pairwise distinct ids; an update racing with
\* a delete of its id gets 200 or 404, and no row is left that a DELETE's
\* 200 says is removed.
C10_ConcurrentOutcomes ==
    /\ \A id \in Ids(snap) :
          LET dels == On("deleteBookByID", id) IN
          /\ Cardinality(Answered(dels, 200)) <= 1
          /\ (dels # {} /\ dels \subseteq Done) =>
                /\ Cardinality(Answered(dels, 200)) = 1
                /\ Answered(dels, 404) = dels \ Answered(dels, 200)
          /\ Answered(dels, 200) # {} => id \notin Ids(books)
          /\ \A u \in On("updateBookByID", id) \cap Done :
                \/ workers[u].resp.status = 200
                \/ /\ workers[u].resp.status = 404
                   /\ Answered(dels, 200) # {}
    /\ \A v, w \in Answered(Ran("createBook"), 200) :
          /\ workers[v].resp.body.id \notin Ids(snap)
          /\ workers[v].resp.body.id = workers[w].resp.body.id => v = w
    /\ Ran("createBook") \cap Done = Answered(Ran("createBook"), 200)

\* Two DELETEs of the same existing id at the database together, and an
\* update of that id that arrived while a DELETE was there and still won.
C10_Witness ==
    \E v, w \in Done :
        /\ v # w
        /\ {v, w} \subseteq On("deleteBookByID", 1)
        /\ 1 \in Ids(snap)
        /\ <<"deleteBookByID", "deleteBookByID">> \in overlap
        /\ workers[v].resp.status = 404
        /\ workers[w].resp.status = 200
        /\ \E u \in On("updateBookByID", 1) \cap Done :
              /\ <<"deleteBookByID", "updateBookByID">> \in overlap
              /\ workers[u].resp.status = 200

=============================================================================
